---- MODULE Spec2Model ----
(***************************************************************************)
(* gulp-cached-remember (src/index.js): a pair of object streams, cached   *)
(* and remember, that share a named, process-wide cache.                   *)
(*                                                                         *)
(* The model keeps the two module-level objects (caches, needsFlushing),   *)
(* the cache records they point to (heap: a cache record outlives its      *)
(* registry slot, because every stage pair closes over the record it found *)
(* at creation), the closure variables of every stage pair (run) and what  *)
(* every stage was given and produced (streams).                           *)
(***************************************************************************)
EXTENDS Naturals, Sequences, FiniteSets, TLC

VARIABLES
  caches,         \* caches[name]: index in heap of the record of that name, 0 = undefined
  heap,           \* the cache records ever created: [order, files, ended]
  needsFlushing,  \* needsFlushing[name]: queued flush actions (the run each is bound to)
  run,            \* closure variables and stage positions of each stage pair
  streams,        \* per stage pair: input given to cached, outputs of both stages, the pipe
  flushLog,       \* the runs whose flush() ran, in execution order
  calls,          \* number of forget and forgetAll calls made
  warnings,       \* the warnings written with util.log, in order
  env             \* what the callers supply: the files of the sources, the useHash
                  \* option, the cache names they pass

vars == <<caches, heap, needsFlushing, run, streams, flushLog, calls, warnings, env>>

----------------------------------------------------------------------------
(* Bounds *)

\* calls made by the program's users: stage pairs created, files written to a
\* stage by its source, forget and forgetAll calls
MaxOps == 4

Runs == 1..MaxOps

----------------------------------------------------------------------------
(* Values *)

\* JavaScript's undefined, where a string is expected (a checksum)
undefined == "<undefined>"

\* JavaScript's undefined, where a vinyl file is expected (a snapshot, a pushed chunk)
undefinedFile == [path |-> undefined, kind |-> "undefined", contents |-> undefined, checksum |-> undefined]

defaultName == "_default"

pluginName == "gulp-cached-remember"

\* a vinyl file: path, the form of its contents (isBuffer / isStream / isNull),
\* the contents as utf8 text when it is a buffer, and an optional checksum property
File(p, k, c, s) == [path |-> p, kind |-> k, contents |-> c, checksum |-> s]

Buf(p, c) == File(p, "buffer", c, undefined)

Str(p) == File(p, "stream", undefined, undefined)

Paths == {"a.js", "b.js", "c.js"}

\* the keys of caches and needsFlushing: String(cacheName)
Names == {"build", defaultName, "0", ""}

\* a cacheName argument: a string, a number (v is its decimal text) or none given
NameStr(s) == [t |-> "string", v |-> s]

NameNum(s) == [t |-> "number", v |-> s]

NameOmitted == [t |-> "undefined", v |-> "undefined"]

\* !x for a string-or-undefined x
Falsy(x) == x = undefined \/ x = ""

\* crypto.createHash('md5').update(s).digest('hex'): a non-empty string,
\* different for different inputs and never the text of a file
md5hex(s) == "md5:" \o s

\* an absent property of cache.files
noEntry == [exists |-> FALSE, checksum |-> undefined, data |-> undefinedFile]

\* cacheFiles[id] = {}
emptyEntry == [exists |-> TRUE, checksum |-> undefined, data |-> undefinedFile]

\* {order: [], files: {}, ended: true}
newCache == [order |-> <<>>, files |-> [p \in Paths |-> noEntry], ended |-> TRUE]

----------------------------------------------------------------------------
(* Array helpers *)

\* seq.indexOf(x) + 1: the 1-based position of the first x, 0 when indexOf returns -1
IndexOf1(seq, x) ==
  IF \E i \in 1..Len(seq) : seq[i] = x
  THEN CHOOSE i \in 1..Len(seq) : seq[i] = x /\ \A j \in 1..(i - 1) : seq[j] # x
  ELSE 0

\* seq.splice(pos, 0, x) with a 0-based pos in 0..Len(seq)
SpliceIn(seq, pos, x) ==
  SubSeq(seq, 1, pos) \o <<x>> \o SubSeq(seq, pos + 1, Len(seq))

\* a splice that removes the first element whatever the position
SpliceOutHead(seq, pos1) == Tail(seq)

\* seq.splice(pos, 1) for pos1 = pos + 1; pos = -1 (pos1 = 0) removes the last element
SpliceOut1(seq, pos1) ==
  IF pos1 = 0
  THEN SubSeq(seq, 1, Len(seq) - 1)
  ELSE SubSeq(seq, 1, pos1 - 1) \o SubSeq(seq, pos1 + 1, Len(seq))

----------------------------------------------------------------------------
(* Log entries of a stage: what it pushed downstream and what it emitted *)

Push(file) == [op |-> "push", file |-> file]

EmitFileModified(cacheName, filePath) ==
  [op |-> "emit", event |-> pluginName \o ":file-modified", cacheName |-> cacheName, filePath |-> filePath]

EmitCacheProcessed(cacheName, isMaster) ==
  [op |-> "emit", event |-> pluginName \o ":cache-processed", cacheName |-> cacheName, isMaster |-> isMaster]

EmitCacheFlush(cacheName, isMaster) ==
  [op |-> "emit", event |-> pluginName \o ":cache-flush", cacheName |-> cacheName, isMaster |-> isMaster]

EmitNeedsFlushing(cacheName) ==
  [op |-> "emit", event |-> pluginName \o ":cache-needsFlushing", cacheName |-> cacheName]

IsPush(e) == e.op = "push"

\* the chunks a log pushed, in order
Pushed(log) == [i \in 1..Len(SelectSeq(log, IsPush)) |-> SelectSeq(log, IsPush)[i].file]

----------------------------------------------------------------------------
(* State after loading the module: no cache, no stage pair *)

noRun ==
  [state |-> "none", nameArg |-> NameOmitted, cacheName |-> undefined, cache |-> 0, isMaster |-> FALSE,
   isNewCache |-> FALSE, useHash |-> FALSE, cachedEnded |-> FALSE,
   rememberEnded |-> FALSE, flushed |-> 0, error |-> FALSE]

noStreams ==
  [cachedIn |-> <<>>, cachedLog |-> <<>>, pipe |-> <<>>, rememberIn |-> <<>>, inserted |-> 0,
   rememberLog |-> <<>>]

InitState ==
  /\ caches = [n \in Names |-> 0]
  /\ heap = <<>>
  /\ needsFlushing = [n \in Names |-> <<>>]
  /\ run = [r \in Runs |-> noRun]
  /\ streams = [r \in Runs |-> noStreams]
  /\ flushLog = <<>>
  /\ calls = 0
  /\ warnings = <<>>

\* the cache record a stage pair closed over
CacheOf(r) == heap[run[r].cache]

Attached(r) == run[r].state = "attached"

\* attached and its remember stage has not completed its end-of-input (flush callback not yet called)
InFlight(r) == Attached(r) /\ run[r].flushed = 0

----------------------------------------------------------------------------
(* gulpCachedRemember(cacheName, opts) *)

\* !cacheName for a cacheName argument: undefined, the empty string and the number 0
FalsyName(arg) ==
  \/ arg.t = "undefined"
  \/ arg.t = "string" /\ arg.v = ""
  \/ arg.t = "number" /\ arg.v = "0"

\* cacheName = cacheName || defaultName, then used as a property key
ResolveName(arg) == IF FalsyName(arg) THEN defaultName ELSE arg.v

Create(r, cacheNameArg, useHash) ==
  LET cacheName == ResolveName(cacheNameArg)
      isNewCache == caches[cacheName] = 0
      idx == IF isNewCache THEN Len(heap) + 1 ELSE caches[cacheName]
      heap1 == IF isNewCache THEN Append(heap, newCache) ELSE heap
      isMaster == heap1[idx].ended
  IN /\ run[r].state = "none"
     /\ \A q \in Runs : q < r => Attached(q)
     /\ caches' = [caches EXCEPT ![cacheName] = idx]
     /\ needsFlushing' = IF isNewCache THEN [needsFlushing EXCEPT ![cacheName] = <<>>] ELSE needsFlushing
     /\ heap' = IF isMaster THEN [heap1 EXCEPT ![idx].ended = FALSE] ELSE heap1
     /\ run' = [run EXCEPT ![r] = [noRun EXCEPT !.state = "attached", !.nameArg = cacheNameArg,
                                              !.cacheName = cacheName,
                                              !.cache = idx, !.isMaster = isMaster,
                                              !.isNewCache = isNewCache, !.useHash = useHash]]
     /\ UNCHANGED <<streams, flushLog, calls, warnings, env>>

----------------------------------------------------------------------------
(* getChecksum(file, useHash) *)

getChecksum(file, useHash) ==
  IF Falsy(file.checksum) /\ file.kind = "buffer"
  THEN (IF useHash THEN md5hex(file.contents) ELSE file.contents)
  ELSE file.checksum

----------------------------------------------------------------------------
(* caching(file, enc, callback): the transform of the cached stage *)

\* newPos = !previousFile ? 0 : (cacheOrder.indexOf(previousFile.path) + 1)
newPos(cacheOrder, previousFile) ==
  IF previousFile = undefinedFile THEN 0 ELSE IndexOf1(cacheOrder, previousFile.path)

\* lines 62-71 without the test for an existing entry
OrderAfterCachingAnyId(cache, isNewCache, id, previousFile) ==
  IF isNewCache
  THEN Append(cache.order, id)
  ELSE SpliceIn(cache.order, newPos(cache.order, previousFile), id)

\* the order after lines 62-71
OrderAfterCaching(cache, isNewCache, id, previousFile) ==
  IF cache.files[id].exists
  THEN cache.order
  ELSE IF isNewCache
       THEN Append(cache.order, id)
       ELSE SpliceIn(cache.order, newPos(cache.order, previousFile), id)

\* line 74 without its !checksum test
MustPushWhenDifferent(entry, checksum) ==
  ~entry.exists \/ checksum # entry.checksum

\* line 74, evaluated after lines 62-71 made the entry exist
MustPush(entry, checksum) ==
  ~entry.exists \/ Falsy(checksum) \/ checksum # entry.checksum

\* a master's transform that emits file-modified whether or not the cache is new
CachingLogAnyCache(cacheName, isNewCache, file, push) ==
  IF ~push THEN <<>>
  ELSE <<Push(file), EmitFileModified(cacheName, file.path)>>

\* what the master's transform writes to its log for one file
CachingLog(cacheName, isNewCache, file, push) ==
  IF ~push THEN <<>>
  ELSE IF isNewCache THEN <<Push(file)>>
  ELSE <<Push(file), EmitFileModified(cacheName, file.path)>>

\* an observer's transform that passes the file on: callback(null, file)
ObserverPassesOn(file) == <<Push(file)>>

\* what an observer's transform writes to its log for one file:
\* if (!isMaster) { return callback(); }
ObserverCachingLog(file) == <<>>

CachingStep(r, file) ==
  LET me == run[r]
      id == file.path
      cache == CacheOf(r)
      \* declared at line 49 and assigned at line 87 only: undefined whenever line 67 reads it
      previousFile == undefinedFile
      checksum == getChecksum(file, me.useHash)
      entry1 == IF cache.files[id].exists THEN cache.files[id] ELSE emptyEntry
      push == MustPush(entry1, checksum)
      entry2 == IF push THEN [entry1 EXCEPT !.checksum = checksum] ELSE entry1
      log == CachingLog(me.cacheName, me.isNewCache, file, push)
  IN /\ Attached(r)
     /\ ~me.cachedEnded
     /\ IF ~me.isMaster
        THEN /\ streams' = [streams EXCEPT ![r].cachedIn = Append(@, file),
                                           ![r].cachedLog = @ \o ObserverCachingLog(file),
                                           ![r].pipe = @ \o Pushed(ObserverCachingLog(file))]
             /\ UNCHANGED heap
        ELSE /\ heap' = [heap EXCEPT ![me.cache] =
                           [order |-> OrderAfterCaching(cache, me.isNewCache, id, previousFile),
                            files |-> [cache.files EXCEPT ![id] = entry2],
                            ended |-> FALSE]]
             /\ streams' = [streams EXCEPT ![r].cachedIn = Append(@, file),
                                           ![r].cachedLog = @ \o log,
                                           ![r].pipe = @ \o Pushed(log)]
     /\ UNCHANGED <<caches, needsFlushing, run, flushLog, calls, warnings, env>>

(* endCaching(callback): the flush of the cached stage *)
EndCaching(r) ==
  /\ Attached(r)
  /\ ~run[r].cachedEnded
  /\ run' = [run EXCEPT ![r].cachedEnded = TRUE,
                        ![r].isNewCache = IF run[r].isMaster THEN FALSE ELSE @]
  /\ UNCHANGED <<caches, heap, needsFlushing, streams, flushLog, calls, warnings, env>>

----------------------------------------------------------------------------
(* remember(file, enc, callback): the transform of the remember stage      *)

\* remember without its isMaster test: every stage pair stores the snapshot
RememberByAnyRun(r, file) ==
  IF CacheOf(r).files[file.path].exists
  THEN /\ heap' = [heap EXCEPT ![run[r].cache].files[file.path].data = file]
       /\ UNCHANGED run
  ELSE /\ run' = [run EXCEPT ![r].error = TRUE]
       /\ UNCHANGED heap

\* For a master, cacheFiles[file.path].data = file; with no entry for the path
\* the assignment throws a TypeError and the callback is never called.
Remember(r, file) ==
  LET me == run[r]
      cache == CacheOf(r)
  IN IF ~me.isMaster
     THEN UNCHANGED <<heap, run>>
     ELSE IF cache.files[file.path].exists
          THEN /\ heap' = [heap EXCEPT ![me.cache].files[file.path].data = file]
               /\ UNCHANGED run
          ELSE /\ run' = [run EXCEPT ![r].error = TRUE]
               /\ UNCHANGED heap

\* the remember stage accepts a write
RememberReady(r) == Attached(r) /\ ~run[r].error /\ ~run[r].rememberEnded

(* The processing between the two stages hands a file that cached pushed   *)
(* to remember, drops it, or writes a file of its own to remember          *)
RememberStep(r) ==
  /\ RememberReady(r)
  /\ streams[r].pipe # <<>>
  /\ streams' = [streams EXCEPT ![r].pipe = Tail(@),
                                ![r].rememberIn = Append(@, Head(streams[r].pipe))]
  /\ Remember(r, Head(streams[r].pipe))
  /\ UNCHANGED <<caches, needsFlushing, flushLog, calls, warnings, env>>

DropStep(r) ==
  /\ RememberReady(r)
  /\ streams[r].pipe # <<>>
  /\ streams' = [streams EXCEPT ![r].pipe = Tail(@)]
  /\ UNCHANGED <<caches, heap, needsFlushing, run, flushLog, calls, warnings, env>>

InsertStep(r, file) ==
  /\ RememberReady(r)
  /\ streams' = [streams EXCEPT ![r].rememberIn = Append(@, file), ![r].inserted = @ + 1]
  /\ Remember(r, file)
  /\ UNCHANGED <<caches, needsFlushing, flushLog, calls, warnings, env>>

----------------------------------------------------------------------------
(* flush(callback) and endRemember(callback) *)

\* a flush that walks cacheOrder from its tail
FlushPushesBackwards(cache) ==
  [i \in 1..Len(cache.order) |-> Push(cache.files[cache.order[Len(cache.order) + 1 - i]].data)]

\* cacheOrder.forEach(function (filePath) { this.push(cacheFiles[filePath].data); }, this)
FlushPushes(cache) == [i \in 1..Len(cache.order) |-> Push(cache.files[cache.order[i]].data)]

\* what flush, bound to the remember stage of run q, writes to that stage's log
FlushLog(q, h) ==
  FlushPushes(h[run[q].cache]) \o <<EmitCacheFlush(run[q].cacheName, run[q].isMaster)>>

\* what endRemember writes to the log of its stage before it flushes (line 107)
ProcessedLog(r) == <<EmitCacheProcessed(run[r].cacheName, run[r].isMaster)>>

\* a deferring branch that announces cache-processed before cache-needsFlushing
DeferLogProcessed(r) == ProcessedLog(r) \o <<EmitNeedsFlushing(run[r].cacheName)>>

\* what endRemember writes to the log of its stage when it queues the flush (line 123)
DeferLog(r) == <<EmitNeedsFlushing(run[r].cacheName)>>

\* an endRemember that never defers
FlushesNowAlways(r) == TRUE

\* the branch taken by endRemember: flush now, or queue the flush
FlushesNow(r) == run[r].isMaster \/ CacheOf(r).ended

\* the members of a sequence
Range(seq) == {seq[i] : i \in 1..Len(seq)}

EndRemember(r) ==
  LET me == run[r]
      queue == needsFlushing[me.cacheName]
  IN /\ RememberReady(r)
     /\ me.cachedEnded
     /\ streams[r].pipe = <<>>
     /\ IF FlushesNow(r)
        THEN /\ streams' = [q \in Runs |->
                  IF q = r
                  THEN [streams[q] EXCEPT !.rememberLog =
                          @ \o ProcessedLog(r) \o FlushLog(r, heap)]
                  ELSE IF q \in Range(queue)
                  THEN [streams[q] EXCEPT !.rememberLog = @ \o FlushLog(q, heap)]
                  ELSE streams[q]]
             /\ heap' = [heap EXCEPT ![me.cache].ended = TRUE]
             /\ run' = [q \in Runs |->
                  IF q = r
                  THEN [run[q] EXCEPT !.rememberEnded = TRUE, !.flushed = @ + 1]
                  ELSE IF q \in Range(queue)
                  THEN [run[q] EXCEPT !.flushed = @ + 1]
                  ELSE run[q]]
             /\ flushLog' = flushLog \o <<r>> \o queue
             /\ needsFlushing' = [needsFlushing EXCEPT ![me.cacheName] = <<>>]
        ELSE /\ streams' = [streams EXCEPT ![r].rememberLog = @ \o DeferLog(r)]
             /\ needsFlushing' = [needsFlushing EXCEPT ![me.cacheName] = Append(@, r)]
             /\ run' = [run EXCEPT ![r].rememberEnded = TRUE]
             /\ UNCHANGED <<heap, flushLog>>
     /\ UNCHANGED <<caches, calls, warnings, env>>

----------------------------------------------------------------------------
(* gulpCachedRemember.forget(cacheName, path) and .forgetAll(cacheName) *)

\* if (arguments.length === 1) { cacheName = defaultName } (forget), arguments.length === 0
\* (forgetAll, cacheFor); a name that is given is used as it is, as a property key
ApiName(arg) == IF arg.t = "undefined" THEN defaultName ELSE arg.v

\* util.log(pluginName, '- .forget() warning: ...')
Warn(message) ==
  /\ warnings' = Append(warnings, message)
  /\ UNCHANGED <<caches, heap, needsFlushing, run, streams, flushLog, env>>

CacheNotFound(cacheName) == [warning |-> "cache not found", cacheName |-> cacheName, path |-> undefined]

FileNotFound(cacheName, path) == [warning |-> "file not found in cache", cacheName |-> cacheName, path |-> path]

\* forget without its test for a missing file (lines 193-195)
ForgetUnchecked(cacheNameArg, path) ==
  LET cacheName == ApiName(cacheNameArg)
  IN /\ calls' = calls + 1
     /\ IF caches[cacheName] = 0
        THEN Warn(CacheNotFound(cacheName))
        ELSE /\ heap' = [heap EXCEPT ![caches[cacheName]] =
                           [@ EXCEPT !.files[path] = noEntry,
                                     !.order = SpliceOut1(@, IndexOf1(@, path))]]
             /\ UNCHANGED <<caches, needsFlushing, run, streams, flushLog, warnings, env>>

Forget(cacheNameArg, path) ==
  LET cacheName == ApiName(cacheNameArg)
  IN /\ calls' = calls + 1
     /\ IF caches[cacheName] = 0
        THEN Warn(CacheNotFound(cacheName))
        ELSE IF ~heap[caches[cacheName]].files[path].exists
        THEN Warn(FileNotFound(cacheName, path))
        ELSE /\ heap' = [heap EXCEPT ![caches[cacheName]] =
                           [@ EXCEPT !.files[path] = noEntry,
                                     !.order = SpliceOut1(@, IndexOf1(@, path))]]
             /\ UNCHANGED <<caches, needsFlushing, run, streams, flushLog, warnings, env>>

ForgetAll(cacheNameArg) ==
  LET cacheName == ApiName(cacheNameArg)
  IN /\ calls' = calls + 1
     /\ IF caches[cacheName] = 0
        THEN Warn(CacheNotFound(cacheName))
        ELSE /\ caches' = [caches EXCEPT ![cacheName] = 0]
             /\ UNCHANGED <<heap, needsFlushing, run, streams, flushLog, warnings, env>>

\* gulpCachedRemember.cacheFor(cacheName): the record of that name, 0 for undefined
cacheFor(cacheNameArg) == caches[ApiName(cacheNameArg)]

----------------------------------------------------------------------------
(* Any interleaving of stage pairs on one cache name *)

\* the files the sources supply
SpecFiles == {Buf("a.js", "X"), Buf("a.js", "Y"), Str("b.js")}

SpecNames == {NameStr("build")}

\* number of files written to the stages by their sources so far
RECURSIVE TotalFed(_)
TotalFed(n) ==
  IF n = 0 THEN 0 ELSE Len(streams[n].cachedIn) + streams[n].inserted + TotalFed(n - 1)

\* calls made so far
Ops == Cardinality({r \in Runs : Attached(r)}) + TotalFed(MaxOps) + calls

MayCall == Ops < MaxOps

Init == InitState /\ env \in [files : {SpecFiles}, useHash : BOOLEAN, names : {SpecNames}]

Next ==
  \/ \E r \in Runs, n \in env.names : MayCall /\ Create(r, n, env.useHash)
  \/ \E r \in Runs, f \in env.files : MayCall /\ CachingStep(r, f)
  \/ \E r \in Runs : EndCaching(r)
  \/ \E r \in Runs : RememberStep(r)
  \/ \E r \in Runs : DropStep(r)
  \/ \E r \in Runs, f \in env.files : MayCall /\ InsertStep(r, f)
  \/ \E r \in Runs : EndRemember(r)
  \/ \E n \in env.names, p \in {f.path : f \in env.files} : MayCall /\ Forget(n, p)
  \/ \E n \in env.names : MayCall /\ ForgetAll(n)

Spec == Init /\ [][Next]_vars

----------------------------------------------------------------------------
(* Successive stage pairs on cache "build": each is created when the one   *)
(* before it has flushed, each source supplies files in path order, each   *)
(* path at most once, and everything cached pushes reaches remember        *)

ScenarioFiles ==
  {Buf("a.js", "X"), Buf("a.js", ""), Buf("b.js", "Y"), Buf("b.js", "Z"), Buf("c.js", "W")}

\* stage pairs of the scenario
ScenarioRuns == 2

\* rank of a path in the order the source reads them
PathRank(p) == CASE p = "a.js" -> 1 [] p = "b.js" -> 2 [] p = "c.js" -> 3

\* the source of run r may supply file next
InPathOrder(r, file) ==
  \A i \in 1..Len(streams[r].cachedIn) : PathRank(streams[r].cachedIn[i].path) < PathRank(file.path)

InitSeq == InitState /\ env \in [files : {ScenarioFiles}, useHash : BOOLEAN, names : {SpecNames}]

NextSeq ==
  \/ \E r \in Runs :
        /\ r <= ScenarioRuns
        /\ \A q \in Runs : q < r => run[q].flushed > 0
        /\ \E n \in env.names : Create(r, n, env.useHash)
  \/ \E r \in Runs, f \in env.files : InPathOrder(r, f) /\ CachingStep(r, f)
  \/ \E r \in Runs : EndCaching(r)
  \/ \E r \in Runs : RememberStep(r)
  \/ \E r \in Runs : EndRemember(r)

SpecSeq == InitSeq /\ [][NextSeq]_vars

----------------------------------------------------------------------------
(* The sequential scenario with calls of forget between and during the runs *)

\* calls of forget
MaxForgets == 1

EvictFiles == {Buf("a.js", "X"), Buf("b.js", "Y"), Buf("c.js", "W")}

InitEvict == InitState /\ env \in [files : {EvictFiles}, useHash : BOOLEAN, names : {SpecNames}]

NextEvict ==
  \/ NextSeq
  \/ \E n \in env.names, p \in {f.path : f \in env.files} : calls < MaxForgets /\ Forget(n, p)

SpecEvict == InitEvict /\ [][NextEvict]_vars

----------------------------------------------------------------------------
(* Any interleaving, with the cache names a caller may pass or leave out *)

NamingFiles == {Buf("a.js", "X")}

NamingNames == {NameStr("build"), NameStr(""), NameNum("0"), NameOmitted}

InitNaming == InitState /\ env \in [files : {NamingFiles}, useHash : BOOLEAN, names : {NamingNames}]

SpecNaming == InitNaming /\ [][Next]_vars

----------------------------------------------------------------------------
(* Stage pairs on one cache name that forgetAll replaces under them *)

\* calls of gulpCachedRemember and forgetAll plus files supplied
MaxDrainOps == 5

DrainFiles == {Buf("a.js", "X")}

InitDrain == InitState /\ env \in [files : {DrainFiles}, useHash : BOOLEAN, names : {SpecNames}]

NextDrain ==
  \/ \E r \in Runs, n \in env.names : Ops < MaxDrainOps /\ Create(r, n, env.useHash)
  \/ \E r \in Runs, f \in env.files : Ops < MaxDrainOps /\ CachingStep(r, f)
  \/ \E r \in Runs : EndCaching(r)
  \/ \E r \in Runs : RememberStep(r)
  \/ \E r \in Runs : EndRemember(r)
  \/ \E n \in env.names : Ops < MaxDrainOps /\ ForgetAll(n)

SpecDrain == InitDrain /\ [][NextDrain]_vars

----------------------------------------------------------------------------
(* Properties *)

\* the chunks the remember stage of r pushes in this step
NewRememberPushes(r) ==
  SubSeq(Pushed(streams'[r].rememberLog),
         Len(Pushed(streams[r].rememberLog)) + 1,
         Len(Pushed(streams'[r].rememberLog)))

\* the chunks the cached stage of r pushes in this step
NewCachedPushes(r) ==
  SubSeq(Pushed(streams'[r].cachedLog),
         Len(Pushed(streams[r].cachedLog)) + 1,
         Len(Pushed(streams'[r].cachedLog)))

\* flush bound to r runs in this step
FlushRuns(r) == run'[r].flushed > run[r].flushed

\* the cached stage of r is given a file in this step
CachedGiven(r) == Len(streams'[r].cachedIn) > Len(streams[r].cachedIn)

\* the remember stage of r is given a file in this step
RememberGiven(r) == Len(streams'[r].rememberIn) > Len(streams[r].rememberIn)

Last(seq) == seq[Len(seq)]

\* the scenario of section 8: run 1 was given a.js("X"), b.js("Y") and has flushed,
\* run 2 was given a.js("X"), b.js("Z"), c.js("W") and has flushed
EndToEndDone ==
  /\ streams[1].cachedIn = <<Buf("a.js", "X"), Buf("b.js", "Y")>>
  /\ streams[2].cachedIn = <<Buf("a.js", "X"), Buf("b.js", "Z"), Buf("c.js", "W")>>
  /\ run[1].flushed = 1
  /\ run[2].flushed = 1

\* C1: in the end-to-end scenario on cache "build", the flush of run 2's remember
\* stage emits exactly a.js("X"), b.js("Z"), c.js("W"), in that order.
C1_EndToEndFlush ==
  EndToEndDone =>
    Pushed(streams[2].rememberLog) = <<Buf("a.js", "X"), Buf("b.js", "Z"), Buf("c.js", "W")>>

\* C8: of two successive master runs on one cache name, the second does not forward
\* a buffer file it is given with the content the first was given, and its flush
\* still emits the snapshot the first run stored for it.
C8_Idempotence ==
  \A i \in 1..Len(streams[2].cachedIn) :
    LET f == streams[2].cachedIn[i]
    IN (f.kind = "buffer" /\ f \in Range(streams[1].cachedIn) /\ run[1].isMaster /\ run[2].isMaster)
       => /\ f \notin Range(Pushed(streams[2].cachedLog))
          /\ run[2].flushed = 1 => f \in Range(Pushed(streams[2].rememberLog))

\* the flush action of r waits in the queue of its cache name
Queued(r) == Attached(r) /\ r \in Range(needsFlushing[run[r].cacheName])

\* endRemember of r took the deferring branch: it emitted cache-needsFlushing
Deferred(r) == Attached(r) /\ EmitNeedsFlushing(run[r].cacheName) \in Range(streams[r].rememberLog)

\* endRemember of r runs in this step
EndRememberRuns(r) == ~run[r].rememberEnded /\ run'[r].rememberEnded

\* m is a master of the cache record r is attached to
MasterOf(m, r) == Attached(m) /\ Attached(r) /\ run[m].isMaster /\ run[m].cache = run[r].cache

\* C2, first part: an observer whose end-of-input comes while a master of its cache
\* is in flight (ended == false) pushes nothing and emits no cache-flush then
C2_NothingAtEnqueue ==
  \A r \in Runs :
    (/\ EndRememberRuns(r)
     /\ ~run[r].isMaster
     /\ ~CacheOf(r).ended
     /\ \E m \in Runs : MasterOf(m, r) /\ InFlight(m))
    => /\ streams'[r].rememberLog = Append(streams[r].rememberLog, EmitNeedsFlushing(run[r].cacheName))
       /\ ~FlushRuns(r)

\* C2, second part: when a queued flush action runs, every master of its cache has
\* flushed, and did so before it
C2_AfterMasterFlush ==
  \A r \in Runs :
    (Queued(r) /\ FlushRuns(r))
    => \A m \in Runs :
         MasterOf(m, r)
         => /\ IndexOf1(flushLog', m) > 0
            /\ IndexOf1(flushLog', m) < IndexOf1(flushLog', r)

\* C2, third part: queued flush actions run in the order they were enqueued
C2_Fifo ==
  \A r1, r2 \in Runs :
    (/\ Queued(r1) /\ Queued(r2)
     /\ run[r1].cacheName = run[r2].cacheName
     /\ IndexOf1(needsFlushing[run[r1].cacheName], r1) < IndexOf1(needsFlushing[run[r2].cacheName], r2)
     /\ FlushRuns(r2))
    => FlushRuns(r1) /\ IndexOf1(flushLog', r1) < IndexOf1(flushLog', r2)

\* C2: a deferred observer emits nothing when it defers; its flush action runs only
\* after the flush of the master of its cache, and queued actions run in FIFO order.
C2_DeferredFlush == [][C2_NothingAtEnqueue /\ C2_AfterMasterFlush /\ C2_Fifo]_vars

\* C3: a flush action that an observer enqueued is never lost and never invoked
\* twice: it is either still queued and not yet invoked, or out of the queue and
\* invoked exactly once.
C3_QueuedFlushNeverLost ==
  \A r \in Runs :
    Deferred(r) => IF Queued(r) THEN run[r].flushed = 0 ELSE run[r].flushed = 1

\* C4: for each cache name, at most one run that has attached and not yet
\* completed its remember stage's end-of-input is master.
C4_MasterExclusivity ==
  \A n \in Names :
    Cardinality({r \in Runs : InFlight(r) /\ run[r].cacheName = n /\ run[r].isMaster}) <= 1

\* order and entries of cache record i
Contents(h, i) == [order |-> h[i].order, files |-> h[i].files]

\* a stage of r handles a file or an end-of-input in this step
StageStep(r) ==
  \/ CachedGiven(r)
  \/ RememberGiven(r)
  \/ ~run[r].cachedEnded /\ run'[r].cachedEnded
  \/ EndRememberRuns(r)

\* a master of cache record i is given a file by its source, at its cached stage
MasterCachedGiven(i) ==
  \E m \in Runs : Attached(m) /\ run[m].isMaster /\ run[m].cache = i /\ CachedGiven(m)

\* a master of cache record i is given a file at its remember stage
MasterRememberGiven(i) ==
  \E m \in Runs : Attached(m) /\ run[m].isMaster /\ run[m].cache = i /\ RememberGiven(m)

C5_ObserverFrame ==
  \A r \in Runs :
    (Attached(r) /\ ~run[r].isMaster /\ StageStep(r))
    => \A i \in DOMAIN heap : Contents(heap', i) = Contents(heap, i)

C5_OnlyMaster ==
  \A i \in DOMAIN heap :
    calls' = calls =>
      /\ (\/ heap'[i].order # heap[i].order
          \/ \E p \in Paths : \/ heap'[i].files[p].exists # heap[i].files[p].exists
                              \/ heap'[i].files[p].checksum # heap[i].files[p].checksum)
         => MasterCachedGiven(i)
      /\ (\E p \in Paths : heap'[i].files[p].data # heap[i].files[p].data)
         => MasterRememberGiven(i)

\* C5: no step of an observer's stages changes any cache's order, entries, checksums
\* or snapshots; among the steps of the stages, only a master's cached stage changes
\* order, entries or checksums and only a master's remember stage changes snapshots.
C5_MasterOnlyMutation == [][C5_ObserverFrame /\ C5_OnlyMaster]_vars

\* an observer's remember stage was given a file whose path has an entry in its cache
C5_Witness ==
  \E r \in Runs :
    /\ Attached(r) /\ ~run[r].isMaster
    /\ streams[r].rememberIn # <<>>
    /\ CacheOf(r).files[streams[r].rememberIn[1].path].exists

C7_Step ==
  \A r \in Runs :
    (Attached(r) /\ run[r].isMaster /\ CachedGiven(r))
    => LET f == Last(streams'[r].cachedIn)
           sum == getChecksum(f, run[r].useHash)
           old == CacheOf(r).files[f.path]
           changed == ~old.exists \/ f.kind = "stream" \/ sum # old.checksum
       IN /\ streams'[r].cachedIn = Append(streams[r].cachedIn, f)
          /\ NewCachedPushes(r) \in {<<>>, <<f>>}
          /\ changed => /\ NewCachedPushes(r) = <<f>>
                        /\ heap'[run[r].cache].files[f.path].checksum = sum

\* C7: a master's cached stage forwards every file that has no entry, is in stream
\* form, or whose checksum differs from the stored one, and then stores the file's
\* checksum; it pushes files in the order it is given them.
C7_ChangeDetection == [][C7_Step]_vars

\* a master has forwarded two files of one path: the second found an entry
C7_Witness ==
  \E r \in Runs :
    /\ Attached(r) /\ run[r].isMaster
    /\ Len(streams[r].cachedIn) = 2
    /\ streams[r].cachedIn[1].path = streams[r].cachedIn[2].path
    /\ Pushed(streams[r].cachedLog) = streams[r].cachedIn

IsFile(chunk) == chunk # undefinedFile

\* the ids of a cache's order whose entry has a snapshot
IdsWithSnapshot(cache) ==
  LET Has(p) == cache.files[p].data # undefinedFile
  IN SelectSeq(cache.order, Has)

C10_FlushSkipsMissing ==
  [][\A r \in Runs :
       FlushRuns(r)
       => /\ undefinedFile \notin Range(NewRememberPushes(r))
          /\ Len(NewRememberPushes(r)) = Len(IdsWithSnapshot(CacheOf(r)))]_vars

----------------------------------------------------------------------------
(* C11: snapshot capture at the remember stage of a master *)

\* C11: for every item delivered to the remember stage of a master run, whether or
\* not an entry for its id exists, the step completes normally (no error is thrown)
\* and afterwards the entry for that id holds that item as its snapshot.
C11_SnapshotCapture ==
  [][\A r \in Runs :
       (Attached(r) /\ run[r].isMaster /\ ~run[r].error /\ RememberGiven(r))
       => LET f == Last(streams'[r].rememberIn)
          IN /\ ~run'[r].error
             /\ heap'[run[r].cache].files[f.path].exists
             /\ heap'[run[r].cache].files[f.path].data = f]_vars

----------------------------------------------------------------------------
(* C12: the cache-processed notification of endRemember *)

\* what the remember stage of r writes to its log in this step
NewRememberLog(r) ==
  SubSeq(streams'[r].rememberLog, Len(streams[r].rememberLog) + 1, Len(streams'[r].rememberLog))

IsCacheProcessed(e) == e.op = "emit" /\ e.event = pluginName \o ":cache-processed"

\* C12 as stated: every remember end-of-input emits cache-processed first, in the
\* flushing branch (before the first replayed item) and in the deferring branch
\* (before cache-needsFlushing) alike.
C12_ProcessedAlways ==
  [][\A r \in Runs :
       EndRememberRuns(r)
       => /\ NewRememberLog(r) # <<>>
          /\ NewRememberLog(r)[1] = EmitCacheProcessed(run[r].cacheName, run[r].isMaster)]_vars

\* C12: a remember end-of-input emits cache-processed, with the cache name and the
\* master flag, exactly when it flushes at once (a master, or an observer that finds
\* the cache ended), and then before anything it replays; when it defers, it emits
\* cache-needsFlushing alone, and its queued flush emits no cache-processed later.
C12_ProcessedWhenFlushing ==
  [][\A r \in Runs :
       /\ (EndRememberRuns(r) /\ FlushesNow(r))
          => /\ NewRememberLog(r)[1] = EmitCacheProcessed(run[r].cacheName, run[r].isMaster)
             /\ \A i \in 2..Len(NewRememberLog(r)) : ~IsCacheProcessed(NewRememberLog(r)[i])
       /\ (EndRememberRuns(r) /\ ~FlushesNow(r))
          => NewRememberLog(r) = <<EmitNeedsFlushing(run[r].cacheName)>>
       /\ (FlushRuns(r) /\ ~EndRememberRuns(r))
          => \A i \in 1..Len(NewRememberLog(r)) : ~IsCacheProcessed(NewRememberLog(r)[i])]_vars

\* an observer deferred and its queued flush has run, an observer flushed at once,
\* and a master flushed
C12_Witness ==
  /\ \E r \in Runs : Deferred(r) /\ run[r].flushed = 1
  /\ \E r \in Runs : Attached(r) /\ ~run[r].isMaster /\ ~Deferred(r) /\ run[r].flushed = 1
  /\ \E r \in Runs : Attached(r) /\ run[r].isMaster /\ run[r].flushed = 1

----------------------------------------------------------------------------
(* C13: the file-modified notification of the cached stage *)

\* what the cached stage of r writes to its log in this step
NewCachedLog(r) ==
  SubSeq(streams'[r].cachedLog, Len(streams[r].cachedLog) + 1, Len(streams'[r].cachedLog))

IsFileModified(e) == e.op = "emit" /\ e.event = pluginName \o ":file-modified"

\* C13: a master cached stage emits exactly one file-modified (cache name, item id)
\* for an item it forwards because its checksum differs from the stored one, right
\* after forwarding it; the run that created the cache emits none; none is emitted
\* for an item that is absorbed.
C13_FileModified ==
  [][\A r \in Runs :
       (Attached(r) /\ run[r].isMaster /\ CachedGiven(r))
       => LET f == Last(streams'[r].cachedIn)
              sum == getChecksum(f, run[r].useHash)
              old == CacheOf(r).files[f.path]
              differs == old.exists /\ ~Falsy(sum) /\ sum # old.checksum
          IN /\ run[r].isNewCache
                => \A i \in 1..Len(NewCachedLog(r)) : ~IsFileModified(NewCachedLog(r)[i])
             /\ (~run[r].isNewCache /\ differs)
                => NewCachedLog(r) = <<Push(f), EmitFileModified(run[r].cacheName, f.path)>>
             /\ NewCachedPushes(r) = <<>> => NewCachedLog(r) = <<>>]_vars

\* a run created the cache with a.js("X") and flushed; the next master was given
\* a.js("Y"), forwarded it and emitted file-modified for it
C13_Witness ==
  \E r0, r \in Runs :
    /\ calls = 0
    /\ streams[r0].cachedIn = <<Buf("a.js", "X")>>
    /\ streams[r0].cachedLog = <<Push(Buf("a.js", "X"))>>
    /\ run[r0].flushed = 1
    /\ run[r].isMaster
    /\ streams[r].cachedIn = <<Buf("a.js", "Y")>>
    /\ streams[r].cachedLog = <<Push(Buf("a.js", "Y")), EmitFileModified("build", "a.js")>>

----------------------------------------------------------------------------
(* C14: eviction by forget *)

\* seq without x, the other elements in their order
Without(seq, x) ==
  LET Other(y) == y # x
  IN SelectSeq(seq, Other)

\* forget removed id p from cache record i in this step
Evicts(i, p) ==
  /\ heap[i].files[p].exists
  /\ ~heap'[i].files[p].exists
  /\ p \notin Range(heap'[i].order)
  /\ \A q \in Paths \ {p} : heap'[i].files[q] = heap[i].files[q]
  /\ heap'[i].order = Without(heap[i].order, p)
  /\ heap'[i].ended = heap[i].ended
  /\ \A j \in DOMAIN heap \ {i} : heap'[j] = heap[j]

\* C14: forget(name, id) on a cache that contains id removes id from the entries and
\* from the order and keeps every other id's entry and relative position (a call
\* that warns instead was given a missing cache or a missing id); afterwards a master
\* that receives id forwards it as a new item, whatever its content.
C14_Eviction ==
  [][/\ calls' > calls
        => \E n \in Names :
             IF warnings' = warnings
             THEN caches[n] # 0 /\ \E p \in Paths : Evicts(caches[n], p)
             ELSE \/ Last(warnings') = CacheNotFound(n) /\ caches[n] = 0
                  \/ /\ caches[n] # 0
                     /\ \E p \in Paths : /\ Last(warnings') = FileNotFound(n, p)
                                         /\ ~heap[caches[n]].files[p].exists
     /\ \A r \in Runs :
          (Attached(r) /\ run[r].isMaster /\ CachedGiven(r))
          => LET f == Last(streams'[r].cachedIn)
             IN ~CacheOf(r).files[f.path].exists => NewCachedPushes(r) = <<f>>]_vars

\* run 1 cached a.js, b.js("Y") and c.js; b.js was forgotten, which left <<a.js, c.js>>
\* at that moment; run 2, a master, was given b.js("Y") again and forwarded it
C14_Witness ==
  /\ calls = 1
  /\ warnings = <<>>
  /\ Len(streams[1].cachedIn) = 3
  /\ Push(Buf("b.js", "Y")) \in Range(streams[1].cachedLog)
  /\ run[1].flushed = 1
  /\ run[2].state = "attached"
  /\ run[2].isMaster
  /\ streams[2].cachedIn = <<Buf("b.js", "Y")>>
  /\ Push(Buf("b.js", "Y")) \in Range(streams[2].cachedLog)
  /\ heap[run[2].cache].order = <<"b.js", "a.js", "c.js">>

----------------------------------------------------------------------------
(* C15: forget and forgetAll on what is not there *)

\* the last warning written names a cache or a file that was missing
WarnedForMissing ==
  \E n \in Names :
    \/ Last(warnings') = CacheNotFound(n) /\ caches[n] = 0
    \/ /\ caches[n] # 0
       /\ \E p \in Paths : Last(warnings') = FileNotFound(n, p) /\ ~heap[caches[n]].files[p].exists

\* the call removed a file entry or a cache that was there
RemovedSomething ==
  \E n \in Names :
    /\ caches[n] # 0
    /\ \/ caches'[n] = 0
       \/ \E p \in Paths : heap[caches[n]].files[p].exists /\ ~heap'[caches[n]].files[p].exists

\* C15: forget on a missing cache or a missing id and forgetAll on a missing cache
\* raise no error and leave the whole registry unchanged (every cache's order,
\* entries and ended flag, every pending flush queue): a call either removes
\* something that was there, or writes a warning and changes nothing else.
C15_MissingIsNoOp ==
  [][calls' > calls
     => \/ /\ warnings' = warnings
           /\ RemovedSomething
        \/ /\ Len(warnings') = Len(warnings) + 1
           /\ WarnedForMissing
           /\ UNCHANGED <<caches, heap, needsFlushing, run, streams, flushLog>>]_vars

\* a call on the missing cache, then a call of forget for b.js on the cache that
\* holds a.js only
C15_Witness ==
  /\ warnings = <<CacheNotFound("build"), FileNotFound("build", "b.js")>>
  /\ caches["build"] # 0
  /\ heap[caches["build"]].order = <<"a.js">>

----------------------------------------------------------------------------
(* C16: where a newly seen id enters the order *)

\* C16: a master cached stage that is given an id with no entry appends it at the
\* tail of the order if its run created the cache; otherwise it inserts it right
\* after the item the run processed just before, and at position 0 only when the
\* run has not processed any item yet.
C16_InsertionPosition ==
  [][\A r \in Runs :
       (Attached(r) /\ run[r].isMaster /\ CachedGiven(r))
       => LET f == Last(streams'[r].cachedIn)
              order == CacheOf(r).order
              before == streams[r].cachedIn
          IN ~CacheOf(r).files[f.path].exists
             => heap'[run[r].cache].order =
                  IF run[r].isNewCache THEN Append(order, f.path)
                  ELSE IF before = <<>> THEN <<f.path>> \o order
                  ELSE SpliceIn(order, IndexOf1(order, Last(before).path), f.path)]_vars

----------------------------------------------------------------------------
(* C17: mastership and the ended flag *)

\* gulpCachedRemember attaches stage pair r in this step
Attaches(r) == run[r].state = "none" /\ run'[r].state = "attached"

\* the ended flag the call finds: that of the existing record, or of the one it creates
EndedAtAttach(cacheName) ==
  IF caches[cacheName] = 0 THEN newCache.ended ELSE heap[caches[cacheName]].ended

\* some master of cache record i has attached and not completed its remember end-of-input
MasterInFlight(i) ==
  \E m \in Runs : Attached(m) /\ run[m].isMaster /\ run[m].cache = i /\ ~run[m].rememberEnded

EndedIffNoMasterInFlight ==
  \A i \in DOMAIN heap : heap[i].ended = ~MasterInFlight(i)

\* C17: a run becomes master exactly when the cache's ended flag is true as it
\* attaches, and attaching as master sets the flag to false; in every reachable state
\* a cache's ended flag is false exactly when a master of that cache has attached and
\* has not yet completed its remember end-of-input.
C17_Mastership ==
  [][/\ \A r \in Runs :
          Attaches(r)
          => /\ run'[r].isMaster = EndedAtAttach(run'[r].cacheName)
             /\ run'[r].isMaster => ~heap'[run'[r].cache].ended
     /\ EndedIffNoMasterInFlight']_vars

\* a master flushed, an observer attached while it was in flight, and a second
\* master of the same cache is in flight
C17_Witness ==
  \E m1, o, m2 \in Runs :
    /\ Attached(m1) /\ run[m1].isMaster /\ run[m1].rememberEnded
    /\ Attached(o) /\ ~run[o].isMaster /\ run[o].cache = run[m1].cache
    /\ Attached(m2) /\ run[m2].isMaster /\ ~run[m2].rememberEnded /\ run[m2].cache = run[m1].cache
    /\ ~heap[run[m1].cache].ended

----------------------------------------------------------------------------
(* C18: the order and the entries of a cache hold the same ids *)

\* C18: after any sequence of create, cached-stage item, remember-stage item,
\* end-of-input, forget and forgetAll, every cache's order contains exactly the ids
\* that are keys of its entries, each exactly once.
C18_OrderMatchesEntries ==
  \A i \in DOMAIN heap :
    /\ \A p \in Paths : heap[i].files[p].exists <=> p \in Range(heap[i].order)
    /\ Cardinality(Range(heap[i].order)) = Len(heap[i].order)

\* a master was given a.js and b.js, a.js was forgotten and b.js is what is left
C18_Witness ==
  /\ calls = 1
  /\ warnings = <<>>
  /\ caches["build"] # 0
  /\ heap[caches["build"]].order = <<"b.js">>
  /\ \E r \in Runs : /\ Len(streams[r].cachedIn) = 2
                     /\ streams[r].cachedIn[1].path = "a.js"
                     /\ streams[r].cachedIn[2].path = "b.js"

----------------------------------------------------------------------------
(* C19: what the drained flushes replay *)

\* C19: when the end-of-input flush of a run drains the pending flush queue, every
\* queued observer flush emits the same sequence of snapshots (ids and contents) as
\* the flush of the draining run just emitted, and once the drain is over the cache
\* is marked ended and the queue is empty.
C19_DrainReplaysSame ==
  [][\A r \in Runs :
       (EndRememberRuns(r) /\ FlushesNow(r))
       => LET queue == needsFlushing[run[r].cacheName]
          IN /\ \A k \in 1..Len(queue) : NewRememberPushes(queue[k]) = NewRememberPushes(r)
             /\ heap'[run[r].cache].ended
             /\ needsFlushing'[run[r].cacheName] = <<>>]_vars

----------------------------------------------------------------------------
(* C20: the cache a name stands for *)

\* C20: name resolution is the same in every entry point: for every name that is
\* given (any string or integer, 0 and the empty string included), the record that
\* gulpCachedRemember(n) attaches to is the record cacheFor(n) returns and the one
\* forget(n, id) and forgetAll(n) act on, and only an omitted name resolves to the
\* default cache.
C20_SameResolution ==
  [][\A r \in Runs :
       Attaches(r)
       => LET n == run'[r].nameArg
          IN /\ ApiName(n) = run'[r].cacheName
             /\ \A arg \in env.names : arg = n => cacheFor(arg)' = run'[r].cache
             /\ run'[r].cacheName = defaultName => n = NameOmitted]_vars

====
